---- MODULE Spec2Model ----
(***************************************************************************)
(* A model of lavaudio: the Manager (session registry, node selection and  *)
(* voice correlation), the Node (control connection, backlog, reconnect)   *)
(* and the Player (per-guild playback state machine).                      *)
(*                                                                         *)
(* Every action is one handler or public method, run to completion (the    *)
(* program is single-threaded JavaScript).  The variables `last`, `pre`,   *)
(* `out`, `tx`, `emitted`, `transfers` and `err` describe the handler that *)
(* ran last: what it was, the state it started from, and what it handed to *)
(* Node.send, to the socket, to the Manager's event emitter and to the     *)
(* host transfer callback, and the error it threw.                         *)
(***************************************************************************)
EXTENDS Integers, Sequences, FiniteSets, TLC

\* ------------------------------------------------------------------ bounds
\* Longest backlog / queue / number of leaked timers the model explores.
MaxBacklog == 2
MaxQueue == 2
MaxTimers == 1

\* ------------------------------------------------------- program constants
NormalClosure == 1000
NumBands == 16
DefaultVolume == 100
DefaultStartTime == 0

\* --------------------------------------------------------------- universes
None == "none"
\* An optional number that was not given (undefined).
Undef == 0 - 1

\* The configured nodes (listOfNodes), in configuration order.  Node 1 has an
\* id (as in the example), node 2 has none and carries a resume key.
Nodes == {1, 2}
NodeOrder == <<1, 2>>
NodeId(n) == IF n = 1 THEN "Node 1" ELSE None
NodeHost(n) == IF n = 1 THEN "localhost" ELSE "host2"
NodeResumeKey(n) == IF n = 2 THEN "key" ELSE None
NodeResumeTout(n) == 60

BotId == "bot"
Guilds == {"g1", "g2"}
Tracks == {"t1", "t2"}
Sessions == {"s1", "s2"}
Channels == {"vc"}

VARIABLES
    user,          \* Manager.user
    nodes,         \* Manager.nodes: the Map as a sequence of [key, node], insertion order
    players,       \* Manager.players: guild -> Player, or NoPlayer
    voiceStates,   \* Manager.voiceStates: guild -> state half, or NoState
    voiceServers,  \* Manager.voiceServers: guild -> server half or None
    built,         \* which Node objects have been constructed
    connected,     \* Node.connected
    ws,            \* Node.#ws: the state of the socket the handle refers to, or None
    loadOf,        \* Node.stats.cpu: whether the field is there, cores, systemLoad
    reconnLive,    \* the timer Node.reconn refers to is still pending
    orphanTimers,  \* pending reconnect timers no handle refers to any more
    packetQueue,   \* Node.#packetQueue
    destroyed,     \* guild -> the destroyed Player object the host still holds
    last,          \* the handler that ran last
    pre,           \* the part of the state it started from
    out,           \* payloads it passed to Node.send
    tx,            \* packets it handed to the socket (WebSocket.send)
    emitted,       \* notifications it emitted on the Manager
    transfers,     \* payloads it passed to the host transfer callback
    err,           \* the error it threw, or None
    ret            \* what it returned, as the host sees it

mgrVars == <<user, nodes, players, voiceStates, voiceServers, destroyed>>
nodeVars == <<built, connected, ws, loadOf, reconnLive, orphanTimers, packetQueue>>
obsVars == <<last, pre, out, tx, emitted, transfers, err, ret>>
vars == <<user, nodes, players, voiceStates, voiceServers, destroyed,
          built, connected, ws, loadOf, reconnLive, orphanTimers, packetQueue,
          last, pre, out, tx, emitted, transfers, err, ret>>

\* ----------------------------------------------------------------- helpers
Op(name, n, g, a) == [op |-> name, n |-> n, g |-> g, a |-> a]

RECURSIVE SeqOfSet(_)
SeqOfSet(S) == IF S = {} THEN <<>>
               ELSE LET x == CHOOSE y \in S : \A z \in S : y <= z
                    IN <<x>> \o SeqOfSet(S \ {x})

\* Map.get / Map.set / Map.delete on the node registry.
NodesGet(key) ==
    LET hits == {i \in 1..Len(nodes) : nodes[i].key = key}
    IN IF hits = {} THEN 0 ELSE nodes[CHOOSE i \in hits : TRUE].node

NodesSet(reg, key, node) ==
    IF \E i \in 1..Len(reg) : reg[i].key = key
    THEN [i \in 1..Len(reg) |->
            IF reg[i].key = key THEN [key |-> key, node |-> node] ELSE reg[i]]
    ELSE Append(reg, [key |-> key, node |-> node])

NodesDelete(reg, key) == SelectSeq(reg, LAMBDA e : e.key # key)

\* JSON.stringify of an outbound payload: the wire form of the object.
Stringify(payload) == <<"json", payload>>

StringifyAll(ps) == [i \in 1..Len(ps) |-> Stringify(ps[i])]

\* A Track object of the queue: the fields the Player reads.
EncodedOf(t) == IF t = "t1" THEN "QAAAt1" ELSE "QAAAt2"
TrackObj(t) == [identifier |-> t, track |-> EncodedOf(t)]
\* Player.track before anything played ({}), and an absent voiceUpdateState.
NoTrack == [identifier |-> None, track |-> None]
NoVoice == [sessionId |-> None, event |-> None]
\* An absent entry of Manager.voiceStates.
NoState == [session_id |-> None, channel_id |-> None]

\* new Player(node, options, manager).  `bands` is not initialised by the
\* constructor: <<>> stands for undefined, an array is a sequence of gains.
NewPlayer(node, g, vc) ==
    [node |-> node, guild |-> g, voiceChannel |-> vc,
     trackRepeat |-> FALSE, queueRepeat |-> FALSE,
     playing |-> FALSE, paused |-> FALSE,
     track |-> NoTrack, voiceUpdateState |-> NoVoice,
     queue |-> <<>>, bands |-> <<>>]

\* An absent entry of Manager.players (no Player has node 0).
NoPlayer == NewPlayer(0, None, None)

\* ------------------------------------------------------------------- Init
\* The state after `new Manager(client, nodes, {transfer})`: no bot id, empty
\* maps, no Node constructed yet.
Init ==
    /\ user = None
    /\ nodes = <<>>
    /\ players = [g \in Guilds |-> NoPlayer]
    /\ voiceStates = [g \in Guilds |-> NoState]
    /\ voiceServers = [g \in Guilds |-> None]
    /\ destroyed = [g \in Guilds |-> NoPlayer]
    /\ built = [n \in Nodes |-> FALSE]
    /\ connected = [n \in Nodes |-> FALSE]
    /\ ws = [n \in Nodes |-> None]
    /\ loadOf = [n \in Nodes |-> [cpu |-> TRUE, cores |-> 0, systemLoad |-> 0]]
    /\ reconnLive = [n \in Nodes |-> FALSE]
    /\ orphanTimers = [n \in Nodes |-> 0]
    /\ packetQueue = [n \in Nodes |-> <<>>]
    /\ last = Op("new", 0, None, None)
    /\ pre = [user |-> None]
    /\ out = <<>>
    /\ tx = <<>>
    /\ emitted = <<>>
    /\ transfers = <<>>
    /\ err = None
    /\ ret = None

\* What the handler that just ran did, in one conjunct.
Did(l, p, o, t, e, tr, er, rt) ==
    /\ last' = l
    /\ pre' = p
    /\ out' = o
    /\ tx' = t
    /\ emitted' = e
    /\ transfers' = tr
    /\ err' = er
    /\ ret' = rt

\* ------------------------------------------------------------------- Node
\* The bounds are budgets over all nodes: packets held in backlogs, and
\* reconnect timers that lost their handle.
RECURSIVE SumOver(_, _)
SumOver(f, S) == IF S = {} THEN 0
                 ELSE LET x == CHOOSE y \in S : TRUE IN f[x] + SumOver(f, S \ {x})

BacklogTotal(q) == SumOver([n \in Nodes |-> Len(q[n])], Nodes)
TimersTotal(t) == SumOver(t, Nodes)

\* Node.send applied to the payloads ps, in order, by one handler (neither
\* `connected` nor the socket changes between them): the backlog afterwards
\* and the packets handed to the socket.  sendPacket is `this.#ws?.send(..)`:
\* without a handle, or on a socket that is no longer open, nothing is
\* transmitted (the library reports the failure to the callback, which drops
\* it).
\* A backlog that takes new packets at its head.
SendQueuePrepends(n, ps) ==
    IF ~connected[n] THEN StringifyAll(ps) \o packetQueue[n] ELSE packetQueue[n]

SendQueue(n, ps) ==
    IF ~connected[n] THEN packetQueue[n] \o StringifyAll(ps) ELSE packetQueue[n]

SendTx(n, ps) ==
    IF connected[n] /\ ws[n] = "open"
    THEN [i \in 1..Len(ps) |-> [node |-> n, packet |-> Stringify(ps[i])]]
    ELSE <<>>

\* The part of the state a handler of node n starts from.
NodeSnap(n) ==
    [packetQueue |-> packetQueue[n], ws |-> ws[n], connected |-> connected[n],
     timers |-> orphanTimers[n] + (IF reconnLive[n] THEN 1 ELSE 0),
     registered |-> \E i \in 1..Len(nodes) : nodes[i].node = n]

ConfigureResuming(n) ==
    [op |-> "configureResuming", key |-> NodeResumeKey(n), timeout |-> NodeResumeTout(n)]

\* Node.reconnect: a new timer, whose handle overwrites Node.reconn; a timer
\* that was pending stays pending, with no handle left to cancel it.
ReconnectLive(n) == [reconnLive EXCEPT ![n] = TRUE]
ReconnectOrphans(n) ==
    [orphanTimers EXCEPT ![n] = IF reconnLive[n] THEN @ + 1 ELSE @]

\* Manager.buildNode for every configured node (Manager.start's forEach).
RECURSIVE BuildNodes(_, _)
BuildNodes(reg, order) ==
    IF order = <<>> THEN reg
    ELSE LET n == Head(order)
             key == IF NodeId(n) # None THEN NodeId(n) ELSE NodeHost(n)
         IN BuildNodes(NodesSet(reg, key, n), Tail(order))

\* The part of the state Manager.start starts from.
StartSnap == [user |-> user]

\* Manager.start(botID).  botID is [t: typeof, v]; "" and undefined are falsy.
BotIdInputs == {[t |-> "undefined", v |-> ""], [t |-> "string", v |-> ""],
                [t |-> "string", v |-> BotId], [t |-> "number", v |-> "7"]}

\* start() without its two checks.
StartAcceptsAnything(b) == None

StartError(b) ==
    IF b.t = "undefined" \/ (b.t = "string" /\ b.v = "") THEN "Error"
    ELSE IF b.t # "string" THEN "TypeError"
    ELSE None

Start(b) ==
    /\ user = None
    /\ IF StartError(b) # None
       THEN /\ UNCHANGED <<mgrVars, nodeVars>>
            /\ Did(Op("start", 0, None, b.t), StartSnap,
                   <<>>, <<>>, <<>>, <<>>, StartError(b), None)
       ELSE /\ user' = b.v
            /\ nodes' = BuildNodes(nodes, NodeOrder)
            /\ built' = [n \in Nodes |-> TRUE]
            /\ ws' = [n \in Nodes |-> "connecting"]
            /\ UNCHANGED <<players, voiceStates, voiceServers, destroyed, connected,
                           loadOf, reconnLive, orphanTimers, packetQueue>>
            /\ Did(Op("start", 0, None, b.t), StartSnap,
                   <<>>, <<>>, <<>>, <<>>, None, None)

\* Node.open: the socket's "open" event.
OpenSends(n) == IF NodeResumeKey(n) # None THEN <<ConfigureResuming(n)>> ELSE <<>>

Open(n) ==
    /\ built[n] /\ ws[n] = "connecting"
    /\ reconnLive' = [reconnLive EXCEPT ![n] = FALSE]
    /\ packetQueue' = [packetQueue EXCEPT ![n] = SendQueue(n, OpenSends(n))]
    /\ BacklogTotal(packetQueue') <= MaxBacklog + 1
    /\ connected' = [connected EXCEPT ![n] = TRUE]
    /\ ws' = [ws EXCEPT ![n] = "open"]
    /\ UNCHANGED <<mgrVars, built, loadOf, orphanTimers>>
    /\ Did(Op("open", n, None, None), NodeSnap(n),
           OpenSends(n), SendTx(n, OpenSends(n)),
           <<[ev |-> "nodeConnect", n |-> n, connected |-> connected[n]]>>, <<>>, None, None)

\* Node.close: the socket's "close" event, with its code.
CloseCodes == {NormalClosure, 1006}

\* close() that schedules a reconnect whatever the code.
CloseReconnectsOnAnyCode(n, code) ==
    /\ built[n] /\ ws[n] \in {"connecting", "open", "failed"}
    /\ ws' = [ws EXCEPT ![n] = "closed"]
    /\ reconnLive' = ReconnectLive(n)
    /\ orphanTimers' = ReconnectOrphans(n)
    /\ TimersTotal(orphanTimers') <= MaxTimers
    /\ UNCHANGED <<mgrVars, built, connected, loadOf, packetQueue>>
    /\ Did(Op("close", n, None, IF code = NormalClosure THEN "normal" ELSE "abnormal"),
           NodeSnap(n), <<>>, <<>>, <<[ev |-> "nodeClose", n |-> n]>>, <<>>, None, None)

Close(n, code) ==
    /\ built[n] /\ ws[n] \in {"connecting", "open", "failed"}
    /\ ws' = [ws EXCEPT ![n] = "closed"]
    /\ reconnLive' = IF code # NormalClosure THEN ReconnectLive(n) ELSE reconnLive
    /\ orphanTimers' = IF code # NormalClosure THEN ReconnectOrphans(n) ELSE orphanTimers
    /\ TimersTotal(orphanTimers') <= MaxTimers
    /\ UNCHANGED <<mgrVars, built, connected, loadOf, packetQueue>>
    /\ Did(Op("close", n, None, IF code = NormalClosure THEN "normal" ELSE "abnormal"),
           NodeSnap(n), <<>>, <<>>, <<[ev |-> "nodeClose", n |-> n]>>, <<>>, None, None)

\* Node.error: the socket's "error" event (the close event follows it).
Error(n) ==
    /\ built[n] /\ ws[n] \in {"connecting", "open"}
    /\ ws' = [ws EXCEPT ![n] = "failed"]
    /\ reconnLive' = ReconnectLive(n)
    /\ orphanTimers' = ReconnectOrphans(n)
    /\ TimersTotal(orphanTimers') <= MaxTimers
    /\ UNCHANGED <<mgrVars, built, connected, loadOf, packetQueue>>
    /\ Did(Op("error", n, None, None), NodeSnap(n), <<>>, <<>>,
           <<[ev |-> "nodeError", n |-> n]>>, <<>>, None, None)

\* The callback of Node.reconnect's setTimeout, for the timer the handle
\* refers to (tracked) or for one that was overwritten.
ReconnFire(n, tracked) ==
    /\ built[n]
    /\ IF tracked THEN reconnLive[n] ELSE orphanTimers[n] > 0
    /\ reconnLive' = IF tracked THEN [reconnLive EXCEPT ![n] = FALSE] ELSE reconnLive
    /\ orphanTimers' = IF tracked THEN orphanTimers
                       ELSE [orphanTimers EXCEPT ![n] = @ - 1]
    /\ connected' = [connected EXCEPT ![n] = FALSE]
    /\ ws' = [ws EXCEPT ![n] = "connecting"]
    /\ UNCHANGED <<mgrVars, built, loadOf, packetQueue>>
    /\ Did(Op("reconnect", n, None, None), NodeSnap(n), <<>>, <<>>,
           <<[ev |-> "nodeReconnect", n |-> n]>>, <<>>, None, None)

\* Node.destroy(reason).  `this.host ?? this.id` is the host: host is a string.
NodeDestroy(n) ==
    /\ built[n]
    /\ ws' = [ws EXCEPT ![n] = None]
    /\ nodes' = NodesDelete(nodes, NodeHost(n))
    /\ UNCHANGED <<user, players, voiceStates, voiceServers, destroyed, built,
                   connected, loadOf, reconnLive, orphanTimers, packetQueue>>
    /\ Did(Op("nodeDestroy", n, None, None), NodeSnap(n), <<>>, <<>>, <<>>, <<>>, None, None)

\* Node.send(payload), called on the node directly.
SendPayloads == {[op |-> "seek", guildId |-> "g1", position |-> k] : k \in 1..2}

Send(n, p) ==
    /\ built[n]
    /\ packetQueue' = [packetQueue EXCEPT ![n] = SendQueue(n, <<p>>)]
    /\ BacklogTotal(packetQueue') <= MaxBacklog
    /\ UNCHANGED <<mgrVars, built, connected, ws, loadOf, reconnLive, orphanTimers>>
    /\ Did(Op("send", n, None, None), NodeSnap(n),
           <<p>>, SendTx(n, <<p>>), <<>>, <<>>, None,
           IF ~connected[n] THEN ToString(Len(SendQueue(n, <<p>>))) ELSE "undefined")

\* ----------------------------------------------------------------- Player

\* The result of a Player method: the Player afterwards, what it passed to
\* Node.send, emitted and transferred, the error thrown, the value returned.
Res(p, o, e, tr, er, rt) ==
    [p |-> p, out |-> o, emitted |-> e, transfers |-> tr, err |-> er, ret |-> rt]

\* One method after another, the second on the Player the first left.
Then(r1, r2) ==
    [p |-> r2.p, out |-> r1.out \o r2.out, emitted |-> r1.emitted \o r2.emitted,
     transfers |-> r1.transfers \o r2.transfers, err |-> r2.err, ret |-> r2.ret]

\* PlayOptions; a number that is not given is Undef, a flag that is not given
\* is "undefined".
NoOptions ==
    [startTime |-> Undef, volume |-> Undef, noReplace |-> "undefined", pause |-> "undefined"]
PlayOptionsInputs ==
    {NoOptions, [startTime |-> 5, volume |-> 50, noReplace |-> "true", pause |-> "undefined"]}

PlayPayload(p, sound, o) ==
    [op |-> "play", guildId |-> p.guild, track |-> sound.track,
     startTime |-> IF o.startTime = Undef THEN DefaultStartTime ELSE o.startTime,
     volume |-> IF o.volume = Undef THEN DefaultVolume ELSE o.volume,
     noReplace |-> IF o.noReplace = "undefined" THEN FALSE ELSE o.noReplace = "true",
     pause |-> IF o.pause = "undefined" THEN FALSE ELSE o.pause = "true"]

\* play() that does not record the head as the current track.
PlayerPlayNoTrack(p, o) ==
    IF p.queue = <<>>
    THEN Res(p, <<>>, <<>>, <<>>, None, "null")
    ELSE Res([p EXCEPT !.playing = TRUE],
             <<PlayPayload(p, Head(p.queue), o)>>, <<>>, <<>>, None, "this")

\* Player.play(options)
PlayerPlay(p, o) ==
    IF p.queue = <<>>
    THEN Res(p, <<>>, <<>>, <<>>, None, "null")
    ELSE Res([p EXCEPT !.playing = TRUE, !.track = Head(p.queue)],
             <<PlayPayload(p, Head(p.queue), o)>>, <<>>, <<>>, None, "this")

\* Player.stop(amount); amount is Undef when not given.  splice(0, amount - 1).
StopPayload(p) == [op |-> "stop", guildId |-> p.guild]

\* stop() that splices `amount` entries.
PlayerStopSplicesAmount(p, amount) ==
    IF amount # Undef /\ amount > 1
    THEN IF amount > Len(p.queue)
         THEN Res(p, <<>>, <<>>, <<>>, "RangeError", None)
         ELSE Res([p EXCEPT !.queue = SubSeq(p.queue, amount + 1, Len(p.queue))],
                  <<StopPayload(p)>>, <<>>, <<>>, None, "this")
    ELSE Res(p, <<StopPayload(p)>>, <<>>, <<>>, None, "this")

PlayerStop(p, amount) ==
    IF amount # Undef /\ amount > 1
    THEN IF amount > Len(p.queue)
         THEN Res(p, <<>>, <<>>, <<>>, "RangeError", None)
         ELSE Res([p EXCEPT !.queue = SubSeq(p.queue, amount, Len(p.queue))],
                  <<StopPayload(p)>>, <<>>, <<>>, None, "this")
    ELSE Res(p, <<StopPayload(p)>>, <<>>, <<>>, None, "this")

\* pause() that leaves `playing` as it was.
PlayerPauseKeepsPlaying(p, state) ==
    IF p.queue = <<>>
    THEN Res(p, <<>>, <<>>, <<>>, None, "this")
    ELSE Res([p EXCEPT !.paused = state],
             <<[op |-> "pause", guildId |-> p.guild, pause |-> state]>>,
             <<>>, <<>>, None, "this")

\* Player.pause(state), state a boolean.
PlayerPause(p, state) ==
    IF p.queue = <<>>
    THEN Res(p, <<>>, <<>>, <<>>, None, "this")
    ELSE Res([p EXCEPT !.playing = ~state, !.paused = state],
             <<[op |-> "pause", guildId |-> p.guild, pause |-> state]>>,
             <<>>, <<>>, None, "this")

\* Player.connect({sessionId, event})
PlayerConnect(p, data) ==
    Res([p EXCEPT !.voiceUpdateState = data],
        <<[op |-> "voiceUpdate", guildId |-> p.guild,
           sessionId |-> data.sessionId, event |-> data.event]>>,
        <<>>, <<>>, None, "this")

\* Player.disconnect()
LeavePayload(g) ==
    [op |-> 4, d |-> [guild_id |-> g, channel_id |-> None,
                      self_mute |-> FALSE, self_deaf |-> FALSE]]

\* disconnect() that throws, instead of returning null, without a voice channel.
PlayerDisconnectThrows(p) ==
    IF p.voiceChannel = None
    THEN Res(p, <<>>, <<>>, <<>>, "Error", None)
    ELSE LET r1 == IF p.paused THEN PlayerPause(p, FALSE)
                   ELSE Res(p, <<>>, <<>>, <<>>, None, "this")
         IN Then(r1, Res([r1.p EXCEPT !.voiceChannel = None], <<>>, <<>>,
                         <<LeavePayload(p.guild)>>, None, "this"))

PlayerDisconnect(p) ==
    IF p.voiceChannel = None
    THEN Res(p, <<>>, <<>>, <<>>, None, "null")
    ELSE LET r1 == IF p.paused THEN PlayerPause(p, FALSE)
                   ELSE Res(p, <<>>, <<>>, <<>>, None, "this")
         IN Then(r1, Res([r1.p EXCEPT !.voiceChannel = None], <<>>, <<>>,
                         <<LeavePayload(p.guild)>>, None, "this"))

\* Player.destroy(), up to the removal from Manager.players (done by the
\* action, which owns the map).
PlayerDestroy(p) ==
    LET r1 == PlayerDisconnect(p)
    IN IF r1.err # None THEN r1
       ELSE Then(r1, Res(r1.p, <<[op |-> "destroy", guildId |-> p.guild]>>,
                         <<[ev |-> "playerDestroy", g |-> p.guild]>>, <<>>, None, None))

\* The filter setters.  Each starts with `if (!this.playing) throw new
\* Error("Nothing is playing")`.
FilterSetters == {"setEQ", "clearEQ", "setKaraoke", "setTimeScale", "setTremolo",
                  "setVibrato", "setRotation", "setDistortion", "setChannelMix",
                  "setLowPass", "cleanFilters"}

ZeroBands == [i \in 1..NumBands |-> 0]

EqualizerPayload(p, bands) == [op |-> "equalizer", guildId |-> p.guild, bands |-> bands]

\* The `filters` payload of a setter called without arguments: the sub-object
\* it adds, filled with the setter's defaults (cleanFilters adds none).
FilterField(f) ==
    CASE f = "setKaraoke" -> "karaoke"
      [] f = "setTimeScale" -> "timescale"
      [] f = "setTremolo" -> "tremolo"
      [] f = "setVibrato" -> "vibrato"
      [] f = "setRotation" -> "rotation"
      [] f = "setDistortion" -> "distortion"
      [] f = "setChannelMix" -> "channelMix"
      [] f = "setLowPass" -> "lowPass"
      [] OTHER -> None

FiltersPayload(p, f) ==
    [op |-> "filters", guildId |-> p.guild, field |-> FilterField(f), values |-> "defaults"]

\* Player.setEQ(...bands).  arg is "empty" (no band), "bad" (a band object
\* with other keys) or "ok" (one {band: 0, gain: 1}).  `this.bands![band] =
\* gain` throws a TypeError while bands is undefined.
EqArgs == {"empty", "bad", "ok"}

PlayerSetEQ(p, arg) ==
    IF ~p.playing THEN Res(p, <<>>, <<>>, <<>>, "NotPlaying", None)
    ELSE IF arg # "ok" THEN Res(p, <<>>, <<>>, <<>>, "TypeError", None)
    ELSE IF p.bands = <<>> THEN Res(p, <<>>, <<>>, <<>>, "TypeError", None)
    ELSE LET b == [p.bands EXCEPT ![1] = 1]
         IN Res([p EXCEPT !.bands = b], <<EqualizerPayload(p, b)>>, <<>>, <<>>, None, "this")

\* Player.clearEQ()
PlayerClearEQ(p) ==
    IF ~p.playing THEN Res(p, <<>>, <<>>, <<>>, "NotPlaying", None)
    ELSE Res([p EXCEPT !.bands = ZeroBands], <<EqualizerPayload(p, ZeroBands)>>,
             <<>>, <<>>, None, "this")

\* A setter without the playing check.
PlayerSetFilterUnchecked(p, f) ==
    Res(p, <<FiltersPayload(p, f)>>, <<>>, <<>>, None, "this")

\* Player.setKaraoke .. Player.cleanFilters
PlayerSetFilter(p, f) ==
    IF ~p.playing THEN Res(p, <<>>, <<>>, <<>>, "NotPlaying", None)
    ELSE Res(p, <<FiltersPayload(p, f)>>, <<>>, <<>>, None, "this")

PlayerFilter(p, f, arg) ==
    CASE f = "setEQ" -> PlayerSetEQ(p, arg)
      [] f = "clearEQ" -> PlayerClearEQ(p)
      [] OTHER -> PlayerSetFilter(p, f)

\* Player.lavalinkEvent(data): the lifecycle events of the node.
EventTypes == {"TrackStartEvent", "TrackEndEvent", "TrackStuckEvent",
               "TrackExceptionEvent", "WebSocketClosedEvent", "PlayerPingEvent"}
EndReasons == {"FINISHED", "STOPPED", "REPLACED"}
ResumeCodes == {4015, 4009}
ClosedCodes == {4015, 4009, 4006}

Ev(name, p) == [ev |-> name, g |-> p.guild, track |-> p.track]

JoinPayload(g, vc, mute, deaf) ==
    [op |-> 4, d |-> [guild_id |-> g, channel_id |-> vc,
                      self_mute |-> mute, self_deaf |-> deaf]]

\* The end of the queue that leaves `paused` as it was.
EndOfQueueKeepsPaused(p) ==
    LET r == PlayerStop([p EXCEPT !.queue = <<>>], Undef)
    IN [r EXCEPT !.p = [r.p EXCEPT !.playing = FALSE]]

\* queue = []; stop(); playing = false; paused = false
EndOfQueue(p) ==
    LET r == PlayerStop([p EXCEPT !.queue = <<>>], Undef)
    IN [r EXCEPT !.p = [r.p EXCEPT !.playing = FALSE, !.paused = FALSE]]

\* queue.shift(); play()
Advance(p) == PlayerPlay([p EXCEPT !.queue = Tail(p.queue)], NoOptions)

\* The TrackEndEvent case of Player.lavalinkEvent: its branches after the
\* trackRepeat one, then the whole case.
TrackEndNoRepeat(p, reason) ==
    IF p.queueRepeat /\ Len(p.queue) <= 1 /\ reason = "FINISHED"
    THEN PlayerPlay(p, NoOptions)
    ELSE IF Len(p.queue) <= 1 /\ reason = "FINISHED"
    THEN Then(Res(p, <<>>, <<Ev("queueEnd", p)>>, <<>>, None, None), EndOfQueue(p))
    ELSE IF Len(p.queue) >= 2 /\ reason = "STOPPED" THEN Advance(p)
    ELSE IF Len(p.queue) <= 1 /\ reason = "STOPPED" THEN EndOfQueue(p)
    ELSE LET r == IF Len(p.queue) >= 2 THEN Advance(p)
                  ELSE Res(p, <<>>, <<>>, <<>>, None, None)
         IN Then(r, Res(r.p, <<>>, <<Ev("trackEnd", r.p)>>, <<>>, None, None))

\* The case without its trackRepeat branch.
TrackEndIgnoresTrackRepeat(p, reason) == TrackEndNoRepeat(p, reason)

TrackEnd(p, reason) ==
    IF p.trackRepeat THEN PlayerPlay(p, NoOptions) ELSE TrackEndNoRepeat(p, reason)

\* A shift that empties the array.
ShiftAll(q) == <<>>

\* Array.prototype.shift: nothing on an empty array.
Shift(q) == IF q = <<>> THEN q ELSE Tail(q)

\* lavalinkEvent whose default branch ignores the event.
LavalinkEventIgnoresUnknown(p, data) ==
    CASE data.type = "TrackStartEvent" ->
            Res(p, <<>>, <<Ev("trackStart", p)>>, <<>>, None, None)
      [] data.type = "TrackEndEvent" -> TrackEnd(p, data.reason)
      [] data.type = "TrackStuckEvent" ->
            LET q == [p EXCEPT !.queue = Shift(p.queue)]
            IN Res(q, <<>>, <<Ev("trackStuck", q)>>, <<>>, None, None)
      [] data.type = "TrackExceptionEvent" ->
            LET q == [p EXCEPT !.queue = Shift(p.queue)]
            IN Res(q, <<>>, <<Ev("trackException", q)>>, <<>>, None, None)
      [] data.type = "WebSocketClosedEvent" ->
            Res(p, <<>>, <<Ev("socketClosed", p)>>,
                IF data.code \in ResumeCodes
                THEN <<JoinPayload(data.guildId, p.voiceChannel, FALSE, FALSE)>>
                ELSE <<>>,
                None, None)
      [] OTHER -> Res(p, <<>>, <<>>, <<>>, None, None)

LavalinkEvent(p, data) ==
    CASE data.type = "TrackStartEvent" ->
            Res(p, <<>>, <<Ev("trackStart", p)>>, <<>>, None, None)
      [] data.type = "TrackEndEvent" -> TrackEnd(p, data.reason)
      [] data.type = "TrackStuckEvent" ->
            LET q == [p EXCEPT !.queue = Shift(p.queue)]
            IN Res(q, <<>>, <<Ev("trackStuck", q)>>, <<>>, None, None)
      [] data.type = "TrackExceptionEvent" ->
            LET q == [p EXCEPT !.queue = Shift(p.queue)]
            IN Res(q, <<>>, <<Ev("trackException", q)>>, <<>>, None, None)
      [] data.type = "WebSocketClosedEvent" ->
            Res(p, <<>>, <<Ev("socketClosed", p)>>,
                IF data.code \in ResumeCodes
                THEN <<JoinPayload(data.guildId, p.voiceChannel, FALSE, FALSE)>>
                ELSE <<>>,
                None, None)
      [] OTHER -> Res(p, <<>>, <<>>, <<>>, "UnknownEvent", None)

\* ---------------------------------------------------------------- Manager
\* The comparator of leastUsedNodes, as Array.prototype.sort reads it: the
\* sign of aLoad - bLoad, a NaN result counting as 0.  A load is systemLoad /
\* cores * 100, or 0 without a cpu field: 0/0 is NaN, x/0 is Infinity.
LoadIsNaN(l) == l.cpu /\ l.cores = 0 /\ l.systemLoad = 0
LoadIsInf(l) == l.cpu /\ l.cores = 0 /\ l.systemLoad > 0
LoadNum(l) == IF l.cpu THEN l.systemLoad ELSE 0
LoadDen(l) == IF l.cpu THEN l.cores ELSE 1

LoadCmp(a, b) ==
    LET la == loadOf[a]
        lb == loadOf[b]
    IN IF LoadIsNaN(la) \/ LoadIsNaN(lb) THEN 0
       ELSE IF LoadIsInf(la) /\ LoadIsInf(lb) THEN 0
       ELSE IF LoadIsInf(la) THEN 1
       ELSE IF LoadIsInf(lb) THEN 0 - 1
       ELSE LET d == LoadNum(la) * LoadDen(lb) - LoadNum(lb) * LoadDen(la)
            IN IF d < 0 THEN 0 - 1 ELSE IF d > 0 THEN 1 ELSE 0

\* Array.prototype.sort on a short array: binary insertion, each element
\* placed after the elements it does not precede.
RECURSIVE InsertAt(_, _, _, _)
InsertAt(sorted, x, left, right) ==
    IF left >= right
    THEN SubSeq(sorted, 1, left) \o <<x>> \o SubSeq(sorted, left + 1, Len(sorted))
    ELSE LET mid == left + ((right - left) \div 2)
         IN IF LoadCmp(x, sorted[mid + 1]) < 0
            THEN InsertAt(sorted, x, left, mid)
            ELSE InsertAt(sorted, x, mid + 1, right)

RECURSIVE SortByLoad(_, _)
SortByLoad(sorted, rest) ==
    IF rest = <<>> THEN sorted
    ELSE SortByLoad(InsertAt(sorted, Head(rest), 0, Len(sorted)), Tail(rest))

\* Manager.leastUsedNodes
LeastUsedNodes ==
    LET vals == [i \in 1..Len(nodes) |-> nodes[i].node]
    IN SortByLoad(<<>>, SelectSeq(vals, LAMBDA n : connected[n]))

\* spawnPlayer that takes the last of leastUsedNodes.
SpawnNodeLast ==
    IF LeastUsedNodes = <<>> THEN 0
    ELSE LET n == LeastUsedNodes[Len(LeastUsedNodes)]
         IN NodesGet(IF NodeId(n) # None THEN NodeId(n) ELSE NodeHost(n))

\* Manager.spawnPlayer(data), for a guild id that is no key of Manager.nodes:
\* the node the new Player is bound to, 0 when it throws "No nodes are
\* connected".
SpawnNode ==
    IF LeastUsedNodes = <<>> THEN 0
    ELSE LET n == LeastUsedNodes[1]
         IN NodesGet(IF NodeId(n) # None THEN NodeId(n) ELSE NodeHost(n))

\* The part of the state a handler for guild g starts from.
Snap(g) == [player |-> players[g], server |-> voiceServers[g], state |-> voiceStates[g]]

\* What a method of the Player registered for g did: the map entry, the
\* backlog of its node and the record of the handler.
Applied(g, node, r, l, keep) ==
    /\ players' = [players EXCEPT ![g] = IF keep THEN r.p ELSE NoPlayer]
    /\ packetQueue' = [packetQueue EXCEPT ![node] = SendQueue(node, r.out)]
    /\ BacklogTotal(packetQueue') <= MaxBacklog
    /\ Did(l, Snap(g), r.out, SendTx(node, r.out), r.emitted, r.transfers, r.err, r.ret)

\* create() without `if (player) return player`.
CreateAlwaysSpawns(g, vc) ==
    /\ IF SpawnNode = 0
       THEN /\ UNCHANGED players
            /\ Did(Op("create", 0, g, "throws"), Snap(g), <<>>, <<>>, <<>>,
                   <<JoinPayload(g, vc, FALSE, TRUE)>>, "NoNodes", None)
       ELSE /\ players' = [players EXCEPT ![g] = NewPlayer(SpawnNode, g, vc)]
            /\ Did(Op("create", 0, g, "new"), Snap(g), <<>>, <<>>, <<>>,
                   <<JoinPayload(g, vc, FALSE, TRUE)>>, None, "player")
    /\ UNCHANGED <<user, nodes, voiceStates, voiceServers, destroyed, nodeVars>>

\* Manager.create(data)
Create(g, vc) ==
    /\ IF players[g] # NoPlayer
       THEN /\ UNCHANGED players
            /\ Did(Op("create", 0, g, "existing"), Snap(g), <<>>, <<>>, <<>>, <<>>,
                   None, "player")
       ELSE IF SpawnNode = 0
       THEN /\ UNCHANGED players
            /\ Did(Op("create", 0, g, "throws"), Snap(g), <<>>, <<>>, <<>>,
                   <<JoinPayload(g, vc, FALSE, TRUE)>>, "NoNodes", None)
       ELSE /\ players' = [players EXCEPT ![g] = NewPlayer(SpawnNode, g, vc)]
            /\ Did(Op("create", 0, g, "new"), Snap(g), <<>>, <<>>, <<>>,
                   <<JoinPayload(g, vc, FALSE, TRUE)>>, None, "player")
    /\ UNCHANGED <<user, nodes, voiceStates, voiceServers, destroyed, nodeVars>>

\* connectionProcess without `if (!server) return false`.
ConnectionProcessNoServerCheck(servers, states, g) ==
    LET p == players[g]
    IN IF p = NoPlayer THEN Res(p, <<>>, <<>>, <<>>, None, "false")
       ELSE IF states[g] # NoState
       THEN [PlayerConnect(p, [sessionId |-> states[g].session_id,
                               event |-> servers[g]]) EXCEPT !.ret = "true"]
       ELSE IF p.voiceUpdateState = NoVoice
       THEN Res(p, <<>>, <<>>, <<>>, "TypeError", None)
       ELSE [PlayerConnect(p, [sessionId |-> p.voiceUpdateState.sessionId,
                               event |-> servers[g]]) EXCEPT !.ret = "true"]

\* connectionProcess that returns false without a stored voice-state half.
ConnectionProcessNeedsState(servers, states, g) ==
    LET p == players[g]
    IN IF servers[g] = None \/ p = NoPlayer \/ states[g] = NoState
       THEN Res(p, <<>>, <<>>, <<>>, None, "false")
       ELSE [PlayerConnect(p, [sessionId |-> states[g].session_id,
                               event |-> servers[g]]) EXCEPT !.ret = "true"]

\* Manager.connectionProcess(guildId), on the maps as the caller left them.
\* r.ret is what it returns; r.p the Player of the guild afterwards.
ConnectionProcess(servers, states, g) ==
    LET p == players[g]
    IN IF servers[g] = None THEN Res(p, <<>>, <<>>, <<>>, None, "false")
       ELSE IF p = NoPlayer THEN Res(p, <<>>, <<>>, <<>>, None, "false")
       ELSE IF states[g] # NoState
       THEN [PlayerConnect(p, [sessionId |-> states[g].session_id,
                               event |-> servers[g]]) EXCEPT !.ret = "true"]
       ELSE IF p.voiceUpdateState = NoVoice
       THEN Res(p, <<>>, <<>>, <<>>, "TypeError", None)
       ELSE [PlayerConnect(p, [sessionId |-> p.voiceUpdateState.sessionId,
                               event |-> servers[g]]) EXCEPT !.ret = "true"]

\* The node a handler that reaches the Player of g sends through.
NodeOf(g) == IF players[g] = NoPlayer THEN CHOOSE n \in Nodes : TRUE ELSE players[g].node

\* Manager.voiceServersUpdate(data)
ServerEvents == {"e1"}

\* voiceServersUpdate that deletes both halves once the link is established.
VoiceServersUpdateConsumes(g, ev) ==
    LET servers == [voiceServers EXCEPT ![g] = ev]
        r == ConnectionProcess(servers, voiceStates, g)
    IN /\ voiceServers' = IF r.ret = "true" THEN [servers EXCEPT ![g] = None] ELSE servers
       /\ voiceStates' = IF r.ret = "true" THEN [voiceStates EXCEPT ![g] = NoState]
                         ELSE voiceStates
       /\ Applied(g, NodeOf(g), r, Op("voiceServersUpdate", 0, g, ev), TRUE)
       /\ UNCHANGED <<user, nodes, destroyed,
                      built, connected, ws, loadOf, reconnLive, orphanTimers>>

VoiceServersUpdate(g, ev) ==
    LET servers == [voiceServers EXCEPT ![g] = ev]
        r == ConnectionProcess(servers, voiceStates, g)
    IN /\ voiceServers' = servers
       /\ Applied(g, NodeOf(g), r, Op("voiceServersUpdate", 0, g, ev), TRUE)
       /\ UNCHANGED <<user, nodes, voiceStates, destroyed,
                      built, connected, ws, loadOf, reconnLive, orphanTimers>>

\* Manager.voiceStateUpdate(data)
UserIds == {BotId, "someone"}

VoiceStateUpdate(g, uid, ch, sid) ==
    /\ IF uid # user
       THEN /\ UNCHANGED <<players, voiceStates, voiceServers, packetQueue>>
            /\ Did(Op("voiceStateUpdate", 0, g, "ignored"), Snap(g),
                   <<>>, <<>>, <<>>, <<>>, None, None)
       ELSE IF ch # None
       THEN LET states == [voiceStates EXCEPT
                             ![g] = [session_id |-> sid, channel_id |-> ch]]
                r == ConnectionProcess(voiceServers, states, g)
            IN /\ voiceStates' = states
               /\ Applied(g, NodeOf(g), r, Op("voiceStateUpdate", 0, g, "joined"), TRUE)
               /\ UNCHANGED voiceServers
       ELSE /\ voiceServers' = [voiceServers EXCEPT ![g] = None]
            /\ voiceStates' = [voiceStates EXCEPT ![g] = NoState]
            /\ UNCHANGED <<players, packetQueue>>
            /\ Did(Op("voiceStateUpdate", 0, g, "left"), Snap(g),
                   <<>>, <<>>, <<>>, <<>>, None, None)
    /\ UNCHANGED <<user, nodes, destroyed,
                   built, connected, ws, loadOf, reconnLive, orphanTimers>>

\* ------------------------------------------- the host's calls on a Player
\* The host reaches a Player through Manager.get / Manager.create, so these
\* act on the Player registered for the guild.
Has(g) == players[g] # NoPlayer

PlayerVarsOnly == <<user, nodes, voiceStates, voiceServers, destroyed,
                    built, connected, ws, loadOf, reconnLive, orphanTimers>>

\* player.queue.push(track)
QueuePush(g, t) ==
    /\ Has(g)
    /\ Len(players[g].queue) < MaxQueue
    /\ Applied(g, players[g].node,
               Res([players[g] EXCEPT !.queue = Append(@, TrackObj(t))],
                   <<>>, <<>>, <<>>, None, None),
               Op("push", 0, g, t), TRUE)
    /\ UNCHANGED PlayerVarsOnly

Play(g, o) ==
    /\ Has(g)
    /\ Applied(g, players[g].node, PlayerPlay(players[g], o),
               Op("play", 0, g, IF o = NoOptions THEN "defaults" ELSE "overrides"), TRUE)
    /\ UNCHANGED PlayerVarsOnly

StopAmounts == {Undef, 1, 2, 3}

Stop(g, amount) ==
    /\ Has(g)
    /\ Applied(g, players[g].node, PlayerStop(players[g], amount),
               Op("stop", 0, g, ToString(amount)), TRUE)
    /\ UNCHANGED PlayerVarsOnly

Pause(g, state) ==
    /\ Has(g)
    /\ Applied(g, players[g].node, PlayerPause(players[g], state),
               Op("pause", 0, g, ToString(state)), TRUE)
    /\ UNCHANGED PlayerVarsOnly

\* Player.setTrackRepeat(mode) / Player.setQueueRepeat(mode)
SetTrackRepeat(g, mode) ==
    /\ Has(g)
    /\ Applied(g, players[g].node,
               Res([players[g] EXCEPT !.trackRepeat = mode], <<>>, <<>>, <<>>, None, "this"),
               Op("setTrackRepeat", 0, g, ToString(mode)), TRUE)
    /\ UNCHANGED PlayerVarsOnly

SetQueueRepeat(g, mode) ==
    /\ Has(g)
    /\ Applied(g, players[g].node,
               Res([players[g] EXCEPT !.queueRepeat = mode], <<>>, <<>>, <<>>, None, "this"),
               Op("setQueueRepeat", 0, g, ToString(mode)), TRUE)
    /\ UNCHANGED PlayerVarsOnly

Filter(g, f, arg) ==
    /\ Has(g)
    /\ f # "setEQ" => arg = "ok"
    /\ Applied(g, players[g].node, PlayerFilter(players[g], f, arg),
               Op(f, 0, g, arg), TRUE)
    /\ UNCHANGED PlayerVarsOnly

Disconnect(g) ==
    /\ Has(g)
    /\ Applied(g, players[g].node, PlayerDisconnect(players[g]),
               Op("disconnect", 0, g, None), TRUE)
    /\ UNCHANGED PlayerVarsOnly

\* The object a destroy() leaves in the host's hands, kept to call destroy()
\* on it again: the fields destroy() reads.  Without a voice channel
\* disconnect() returns at once and destroy() reads the guild and the node
\* only; with one it goes on to read paused and the queue.
Stale(p) ==
    IF p.voiceChannel = None THEN NewPlayer(p.node, p.guild, None)
    ELSE [NewPlayer(p.node, p.guild, p.voiceChannel) EXCEPT
            !.paused = p.paused, !.queue = p.queue]

\* Player.destroy() on the Player registered for g; the host keeps the object.
Destroy(g) ==
    /\ Has(g)
    /\ LET r == PlayerDestroy(players[g])
       IN /\ Applied(g, players[g].node, r, Op("destroy", 0, g, "first"), r.err # None)
          /\ destroyed' = IF r.err = None THEN [destroyed EXCEPT ![g] = Stale(r.p)]
                          ELSE destroyed
    /\ UNCHANGED <<user, nodes, voiceStates, voiceServers,
                   built, connected, ws, loadOf, reconnLive, orphanTimers>>

\* Player.destroy() once more, on the object a first destroy() left: its
\* players.delete(guild) removes whatever is registered for the guild.
DestroyAgain(g) ==
    /\ destroyed[g] # NoPlayer
    /\ LET p == destroyed[g]
           r == PlayerDestroy(p)
       IN /\ players' = IF r.err = None THEN [players EXCEPT ![g] = NoPlayer] ELSE players
          /\ destroyed' = [destroyed EXCEPT ![g] = Stale(r.p)]
          /\ packetQueue' = [packetQueue EXCEPT ![p.node] = SendQueue(p.node, r.out)]
          /\ BacklogTotal(packetQueue') <= MaxBacklog
          /\ Did(Op("destroy", 0, g, "again"), Snap(g), r.out, SendTx(p.node, r.out),
                 r.emitted, r.transfers, r.err, r.ret)
    /\ UNCHANGED <<user, nodes, voiceStates, voiceServers,
                   built, connected, ws, loadOf, reconnLive, orphanTimers>>

\* Node.message(payload) for an `event` packet: routed to the Player of
\* packet.guildId if there is one, then re-emitted as `raw`.  An error thrown
\* by the Player's handler leaves Node.message before the raw emit.
EventPackets(g) ==
    {[type |-> ty, reason |-> None, code |-> 0, guildId |-> g] :
        ty \in EventTypes \ {"TrackEndEvent", "WebSocketClosedEvent"}}
    \cup {[type |-> "TrackEndEvent", reason |-> rs, code |-> 0, guildId |-> g] :
            rs \in EndReasons}
    \cup {[type |-> "WebSocketClosedEvent", reason |-> None, code |-> c, guildId |-> g] :
            c \in ClosedCodes}

Raw(n, g, op) == [ev |-> "raw", n |-> n, g |-> g, op |-> op]

MessageEvent(n, data) ==
    /\ built[n] /\ ws[n] = "open"
    /\ LET g == data.guildId
           r == IF Has(g) THEN LavalinkEvent(players[g], data)
                ELSE Res(players[g], <<>>, <<>>, <<>>, None, None)
           r2 == IF r.err = None
                 THEN [r EXCEPT !.emitted = @ \o <<Raw(n, g, "event")>>]
                 ELSE r
       IN Applied(g, NodeOf(g), r2,
                  Op(data.type, n, g,
                     IF data.type = "TrackEndEvent" THEN data.reason
                     ELSE ToString(data.code)), TRUE)
    /\ UNCHANGED PlayerVarsOnly

\* Node.message for a stats packet: `this.stats = {...packet}`.  The packet
\* carries a cpu object, or none; systemLoad is counted in units of its
\* smallest value.
StatsInputs ==
    {[cpu |-> FALSE, cores |-> 0, systemLoad |-> 0]} \cup
    {[cpu |-> TRUE, cores |-> c, systemLoad |-> l] : c \in {1, 2}, l \in {0, 1}}

Stats(n, s) ==
    /\ built[n] /\ ws[n] = "open"
    /\ loadOf' = [loadOf EXCEPT ![n] = s]
    /\ UNCHANGED <<mgrVars, built, connected, ws, reconnLive, orphanTimers, packetQueue>>
    /\ Did(Op("stats", n, None, None), NodeSnap(n), <<>>, <<>>,
           <<Raw(n, None, "stats")>>, <<>>, None, None)

\* The host sends on the first configured node; the backlog of the second
\* one takes what its own open handler sends.
SendNodes == {1}

NextNode ==
    \/ \E b \in BotIdInputs : Start(b)
    \/ \E n \in Nodes : Open(n)
    \/ \E n \in Nodes, code \in CloseCodes : Close(n, code)
    \/ \E n \in Nodes : Error(n)
    \/ \E n \in Nodes, tracked \in BOOLEAN : ReconnFire(n, tracked)
    \/ \E n \in Nodes : NodeDestroy(n)
    \/ \E n \in SendNodes, p \in SendPayloads : Send(n, p)

SpecNode == Init /\ [][NextNode]_vars

\* The sessions are bound to the first configured node (the second one
\* stays down).
PlayNodes == {1}

\* The voice correlation of the Manager, over all guilds: start, the node
\* opening, sessions created and destroyed, and the two voice-gateway events.
NextVoice ==
    \/ \E b \in BotIdInputs : Start(b)
    \/ \E n \in PlayNodes : Open(n)
    \/ \E g \in Guilds, vc \in Channels : Create(g, vc)
    \/ \E g \in Guilds, ev \in ServerEvents : VoiceServersUpdate(g, ev)
    \/ \E g \in Guilds, uid \in UserIds, ch \in Channels \cup {None}, sid \in Sessions :
          VoiceStateUpdate(g, uid, ch, sid)
    \/ \E g \in Guilds : Destroy(g)

SpecVoice == Init /\ [][NextVoice]_vars

\* The guild whose session is followed.
PlayGuilds == {"g1"}

\* Node selection: the sockets of the nodes opening, closing and being
\* reopened, the stats packets that set their load, and a session created on
\* the node selected.
NextSelect ==
    \/ \E b \in BotIdInputs : Start(b)
    \/ \E n \in Nodes : Open(n)
    \/ \E n \in Nodes, s \in StatsInputs : Stats(n, s)
    \/ \E n \in Nodes, code \in CloseCodes : Close(n, code)
    \/ \E n \in Nodes : ReconnFire(n, TRUE)
    \/ \E n \in Nodes : NodeDestroy(n)
    \/ \E g \in PlayGuilds, vc \in Channels : Create(g, vc)

SpecSelect == Init /\ [][NextSelect]_vars

\* The playback session of one guild: every call of the host on its Player
\* but the filter setters, and every lifecycle event of the node.
Next ==
    \/ \E b \in BotIdInputs : Start(b)
    \/ \E n \in PlayNodes : Open(n)
    \/ \E g \in PlayGuilds, vc \in Channels \cup {None} : Create(g, vc)
    \/ \E g \in PlayGuilds, t \in Tracks : QueuePush(g, t)
    \/ \E g \in PlayGuilds, o \in PlayOptionsInputs : Play(g, o)
    \/ \E g \in PlayGuilds, amount \in StopAmounts : Stop(g, amount)
    \/ \E g \in PlayGuilds, state \in BOOLEAN : Pause(g, state)
    \/ \E g \in PlayGuilds, mode \in BOOLEAN : SetTrackRepeat(g, mode)
    \/ \E g \in PlayGuilds, mode \in BOOLEAN : SetQueueRepeat(g, mode)
    \/ \E g \in PlayGuilds : Disconnect(g)
    \/ \E g \in PlayGuilds : Destroy(g)
    \/ \E g \in PlayGuilds : DestroyAgain(g)
    \/ \E n \in PlayNodes, g \in PlayGuilds : \E data \in EventPackets(g) : MessageEvent(n, data)

Spec == Init /\ [][Next]_vars

\* The filter setters of that session, with the calls and the event that
\* take it into and out of playing.
FinishedPacket(g) ==
    [type |-> "TrackEndEvent", reason |-> "FINISHED", code |-> 0, guildId |-> g]

NextFilters ==
    \/ \E b \in BotIdInputs : Start(b)
    \/ \E n \in PlayNodes : Open(n)
    \/ \E g \in PlayGuilds, vc \in Channels \cup {None} : Create(g, vc)
    \/ \E g \in PlayGuilds, t \in Tracks : QueuePush(g, t)
    \/ \E g \in PlayGuilds : Play(g, NoOptions)
    \/ \E g \in PlayGuilds, state \in BOOLEAN : Pause(g, state)
    \/ \E g \in PlayGuilds, f \in FilterSetters, arg \in EqArgs : Filter(g, f, arg)
    \/ \E n \in PlayNodes, g \in PlayGuilds : MessageEvent(n, FinishedPacket(g))

SpecFilters == Init /\ [][NextFilters]_vars

\* The voice-gateway events of a guild delivered before its session exists
\* and none after: the session is then created and used.  Every handler is a
\* callback of the host's event loop, which runs each one that is ready.
NextHalvesFirst ==
    \/ \E b \in BotIdInputs : Start(b)
    \/ \E n \in PlayNodes : Open(n)
    \/ \E g \in PlayGuilds, ev \in ServerEvents : ~Has(g) /\ VoiceServersUpdate(g, ev)
    \/ \E g \in PlayGuilds, uid \in UserIds, ch \in Channels \cup {None}, sid \in Sessions :
          ~Has(g) /\ VoiceStateUpdate(g, uid, ch, sid)
    \/ \E g \in PlayGuilds, vc \in Channels : Create(g, vc)
    \/ \E g \in PlayGuilds, t \in Tracks : QueuePush(g, t)
    \/ \E g \in PlayGuilds : Play(g, NoOptions)
    \/ \E g \in PlayGuilds, state \in BOOLEAN : Pause(g, state)
    \/ \E n \in PlayNodes, g \in PlayGuilds : MessageEvent(n, FinishedPacket(g))

SpecHalvesFirst == Init /\ [][NextHalvesFirst]_vars /\ WF_vars(NextHalvesFirst)

\* ================================================================= claims
TxPackets == [i \in 1..Len(tx) |-> tx[i].packet]

\* The voiceUpdate commands the last handler passed to Node.send for guild g.
VoiceUpdates(g) == SelectSeq(out, LAMBDA m : m.op = "voiceUpdate" /\ m.guildId = g)

PlaysOf(g) == SelectSeq(out, LAMBDA m : m.op = "play" /\ m.guildId = g)

Emitted(name) == \E i \in 1..Len(emitted) : emitted[i].ev = name

\* A voice-gateway event that stored a half (not one ignored for another
\* user, nor the bot leaving the channel).
StoredAHalf ==
    /\ last.op \in {"voiceServersUpdate", "voiceStateUpdate"}
    /\ last.a \notin {"ignored", "left"}

\* C1 (as claimed): when a connection opens, the packets that Node.send put
\* in the backlog while the node was disconnected are all handed to the
\* socket, in the order they were sent, none lost and none twice, and the
\* backlog is left empty.
C1_BacklogFlushedInOrderOnOpen ==
    last.op = "open" =>
        LET q == pre.packetQueue
        IN /\ \E k \in 0..Len(TxPackets) :
                /\ k + Len(q) <= Len(TxPackets)
                /\ SubSeq(TxPackets, k + 1, k + Len(q)) = q
           /\ Len(TxPackets) <= Len(q) + Len(out)
           /\ \A i \in 1..Len(packetQueue[last.n]) :
                \A j \in 1..Len(q) : packetQueue[last.n][i] # q[j]

C3_EitherOrderOneVoiceUpdateNoError ==
    (/\ StoredAHalf
     /\ pre.player # NoPlayer
     /\ pre.player.voiceUpdateState = NoVoice
     /\ pre.server = None \/ pre.state = NoState) =>
        /\ err = None
        /\ Len(VoiceUpdates(last.g)) =
             IF voiceServers[last.g] # None /\ voiceStates[last.g] # NoState
             THEN 1 ELSE 0

\* C4 (as claimed): a TrackEnd with reason STOPPED on a queue of two or more
\* removes the head and plays the new head, whatever the repeat flags.
C4_StoppedDropsHeadAndPlaysNext ==
    (/\ last.op = "TrackEndEvent" /\ last.a = "STOPPED"
     /\ pre.player # NoPlayer
     /\ Len(pre.player.queue) >= 2) =>
        /\ players[last.g].queue = Tail(pre.player.queue)
        /\ Len(PlaysOf(last.g)) = 1
        /\ PlaysOf(last.g)[1].track = pre.player.queue[2].track

\* C5 (as claimed): every TrackEnd handled by a session ends with a trackEnd
\* notification.
C5_TrackEndAlwaysEmitted ==
    (last.op = "TrackEndEvent" /\ pre.player # NoPlayer) => Emitted("trackEnd")

\* C6: a TrackEnd with reason FINISHED, on a queue of at most one track and
\* with both repeat flags off, empties the queue, sends a stop command, leaves
\* playing and paused false and emits queueEnd.
C6_FinishedEndsQueue ==
    (/\ last.op = "TrackEndEvent" /\ last.a = "FINISHED"
     /\ pre.player # NoPlayer
     /\ Len(pre.player.queue) <= 1
     /\ ~pre.player.trackRepeat /\ ~pre.player.queueRepeat) =>
        /\ err = None
        /\ players[last.g].queue = <<>>
        /\ out = <<[op |-> "stop", guildId |-> last.g]>>
        /\ ~players[last.g].playing
        /\ ~players[last.g].paused
        /\ Emitted("queueEnd")

\* The last track of a paused session finished.
C6_Witness ==
    /\ last.op = "TrackEndEvent" /\ last.a = "FINISHED"
    /\ pre.player # NoPlayer
    /\ Len(pre.player.queue) = 1
    /\ pre.player.paused
    /\ ~pre.player.trackRepeat /\ ~pre.player.queueRepeat
    /\ Emitted("queueEnd")

\* C7: a TrackEnd with reason FINISHED while trackRepeat is on replays the
\* head: one play command for the same head, the queue unchanged and no
\* queueEnd, whatever queueRepeat is and however long the queue (>= 1).
C7_TrackRepeatReplaysHead ==
    (/\ last.op = "TrackEndEvent" /\ last.a = "FINISHED"
     /\ pre.player # NoPlayer
     /\ pre.player.trackRepeat
     /\ Len(pre.player.queue) >= 1) =>
        /\ err = None
        /\ players[last.g].queue = pre.player.queue
        /\ Len(out) = 1
        /\ out[1].op = "play"
        /\ out[1].guildId = last.g
        /\ out[1].track = Head(pre.player.queue).track
        /\ players[last.g].track = Head(pre.player.queue)
        /\ ~Emitted("queueEnd")

\* The only track finished with both repeat flags on.
C7_Witness ==
    /\ last.op = "TrackEndEvent" /\ last.a = "FINISHED"
    /\ pre.player # NoPlayer
    /\ pre.player.trackRepeat /\ pre.player.queueRepeat
    /\ Len(pre.player.queue) = 1
    /\ Len(out) = 1

\* C8: every filter setter called on a session that is not playing raises
\* the not-playing error, sends nothing and leaves the session as it was.
C8_FiltersNeedPlaying ==
    (/\ last.op \in FilterSetters
     /\ ~pre.player.playing) =>
        /\ err = "NotPlaying"
        /\ out = <<>>
        /\ tx = <<>>
        /\ players[last.g] = pre.player

\* setTremolo() on a session that played and is no longer playing.
C8_Witness ==
    /\ last.op = "setTremolo"
    /\ ~pre.player.playing
    /\ pre.player.track # NoTrack
    /\ err = "NotPlaying"

\* C9: play() on a non-empty queue sets playing, records the queue head as
\* the current track and sends one play command with the guild id and the
\* head's encoded track (startTime 0 and volume 100 without overrides); on an
\* empty queue it returns null, sends nothing and changes nothing.
C9_PlayStartsHead ==
    last.op = "play" =>
        IF pre.player.queue # <<>>
        THEN /\ players[last.g].playing
             /\ players[last.g].track = Head(pre.player.queue)
             /\ Len(out) = 1
             /\ out[1].op = "play"
             /\ out[1].guildId = last.g
             /\ out[1].track = EncodedOf(Head(pre.player.queue).identifier)
             /\ last.a = "defaults" => out[1].startTime = 0 /\ out[1].volume = 100
             /\ ret = "this"
        ELSE /\ ret = "null"
             /\ out = <<>>
             /\ players[last.g] = pre.player

\* play() without overrides on a session whose current track was another one.
C9_Witness ==
    /\ last.op = "play" /\ last.a = "defaults"
    /\ pre.player.queue # <<>>
    /\ pre.player.track # NoTrack
    /\ pre.player.track # Head(pre.player.queue)
    /\ Len(out) = 1

\* C10: destroy() called again on a destroyed session, the guild having no
\* session registered, does not throw and leaves Manager.players as it was.
C10_SecondDestroyIsNoOp ==
    (/\ last.op = "destroy" /\ last.a = "again"
     /\ pre.player = NoPlayer) =>
        /\ err = None
        /\ players[last.g] = NoPlayer

\* A second destroy(): nothing is transferred to the gateway, playerDestroy is
\* emitted once more.
C10_Witness ==
    /\ last.op = "destroy" /\ last.a = "again"
    /\ pre.player = NoPlayer
    /\ Emitted("playerDestroy")
    /\ transfers = <<>>

\* The nodes leastUsedNodes returns, and the place of a node in Manager.nodes.
Selected == {LeastUsedNodes[i] : i \in 1..Len(LeastUsedNodes)}

RegIndex(n) == CHOOSE i \in 1..Len(nodes) : nodes[i].node = n

\* The load the specification gives a node, as a fraction: 0 for a node that
\* has received no stats packet or one without cpu stats, systemLoad / cores
\* otherwise (the factor 100 does not change the order).
NoStatsYet(n) == loadOf[n] = [cpu |-> TRUE, cores |-> 0, systemLoad |-> 0]
StatedNum(n) == IF NoStatsYet(n) \/ ~loadOf[n].cpu THEN 0 ELSE loadOf[n].systemLoad
StatedDen(n) == IF NoStatsYet(n) \/ ~loadOf[n].cpu THEN 1 ELSE loadOf[n].cores

\* C11 (as claimed): every node leastUsedNodes returns has an open control
\* connection: opened, and not since closed, awaiting reconnect or destroyed.
C11_SelectedNodesAreOpen ==
    \A n \in Selected : ws[n] = "open"

\* C12 (as claimed): leastUsedNodes returns the connected nodes in
\* non-decreasing order of systemLoad/cores*100, a node without CPU stats
\* counting as load 0, and nodes of equal load in registration order.
C12_SortedByLoadStable ==
    LET L == LeastUsedNodes
    IN /\ Selected = {nodes[i].node : i \in {j \in 1..Len(nodes) : connected[nodes[j].node]}}
       /\ \A i, j \in 1..Len(L) :
            i < j =>
              /\ StatedNum(L[i]) * StatedDen(L[j]) <= StatedNum(L[j]) * StatedDen(L[i])
              /\ StatedNum(L[i]) * StatedDen(L[j]) = StatedNum(L[j]) * StatedDen(L[i])
                   => RegIndex(L[i]) < RegIndex(L[j])

\* C13: a guild has at most one session: create() constructs a session only
\* for a guild that has none, and for a guild that has one it returns that
\* session as it is, without calling the transfer callback.
C13_CreateReturnsExistingSession ==
    last.op = "create" =>
        /\ last.a = "new" => pre.player = NoPlayer
        /\ pre.player # NoPlayer =>
             /\ players[last.g] = pre.player
             /\ transfers = <<>>
             /\ ret = "player"
             /\ err = None

\* create() for a guild whose session already holds a voice link.
C13_Witness ==
    /\ last.op = "create" /\ last.a = "existing"
    /\ pre.player # NoPlayer
    /\ pre.player.voiceUpdateState # NoVoice
    /\ players[last.g] = pre.player

\* The reconnect timers of node n that are pending.
Pending(n) == orphanTimers[n] + (IF reconnLive[n] THEN 1 ELSE 0)

\* C14 (as claimed): when the close handler, with a non-normal code, runs for
\* a connection whose error handler has already run, at most one reconnect
\* timer is pending afterwards.
C14_ErrorThenCloseOneTimer ==
    (/\ last.op = "close" /\ last.a = "abnormal"
     /\ pre.ws = "failed") => Pending(last.n) <= 1

\* C15: a close with code 1000 schedules no reconnect and leaves the socket
\* closed; a close with another code schedules one reconnect; a connect
\* attempt after start comes only from a scheduled reconnect whose delay
\* elapsed, which emits nodeReconnect, marks the node disconnected and calls
\* connect().
C15_CloseSchedulesReconnectUnlessNormal ==
    /\ (last.op = "close" /\ last.a = "normal") =>
          /\ Pending(last.n) = pre.timers
          /\ reconnLive[last.n] => pre.timers >= 1
          /\ ws[last.n] = "closed"
          /\ ~Emitted("nodeReconnect")
    /\ (last.op = "close" /\ last.a = "abnormal") =>
          /\ Pending(last.n) = pre.timers + 1
          /\ reconnLive[last.n]
          /\ ws[last.n] = "closed"
    /\ last.op = "reconnect" =>
          /\ pre.timers >= 1
          /\ Pending(last.n) = pre.timers - 1
          /\ Emitted("nodeReconnect")
          /\ ~connected[last.n]
          /\ ws[last.n] = "connecting"

\* The reconnect scheduled by a close fired: the closed socket is replaced by
\* a connecting one.
C15_Witness ==
    /\ last.op = "reconnect"
    /\ pre.ws = "closed"
    /\ pre.timers = 1
    /\ ws[last.n] = "connecting"

\* C16 (as claimed): after Node.destroy the node is in Manager.nodes no more,
\* whether it was registered under its id or under its host.
C16_DestroyRemovesNodeFromMap ==
    last.op = "nodeDestroy" => ~\E i \in 1..Len(nodes) : nodes[i].node = last.n

\* C17 (as claimed): a destroyed node is not selected by leastUsedNodes, and
\* the step after its destroy() is neither a reconnect of it (nodeReconnect
\* and connect()) nor its connection opening.
C17_DestroyedIsTerminal ==
    [][last.op = "nodeDestroy" =>
          /\ last.n \notin Selected
          /\ ~(last'.op \in {"reconnect", "open"} /\ last'.n = last.n)]_vars

C19_ConfigureResumingTransmittedOnOpen ==
    (last.op = "open" /\ NodeResumeKey(last.n) # None) =>
        \E i \in 1..Len(tx) :
            tx[i] = [node |-> last.n, packet |-> Stringify(ConfigureResuming(last.n))]

\* C20 (as claimed): when nodeConnect is emitted the node is already marked
\* connected, so that its handler finds it in leastUsedNodes.
C20_ConnectedBeforeNodeConnect ==
    last.op = "open" =>
        \A i \in 1..Len(emitted) :
            emitted[i].ev = "nodeConnect" => emitted[i].connected

\* C21: start(botId) with a missing or non-string botId raises an error,
\* leaves Manager.user unset and builds and registers no node; with a valid
\* botId it records the id and builds and registers one connecting node per
\* configured node.
C21_StartFailsFastOrBuildsNodes ==
    last.op = "start" =>
        /\ last.a # "string" => err # None
        /\ err # None =>
             /\ err \in {"Error", "TypeError"}
             /\ user = None
             /\ nodes = <<>>
             /\ \A n \in Nodes : ~built[n] /\ ws[n] = None
        /\ err = None =>
             /\ user = BotId
             /\ Len(nodes) = Cardinality(Nodes)
             /\ \A n \in Nodes :
                  /\ built[n]
                  /\ ws[n] = "connecting"
                  /\ \E i \in 1..Len(nodes) : nodes[i].node = n

\* start(7): a botId that is not a string.
C21_Witness ==
    /\ last.op = "start" /\ last.a = "number"
    /\ err = "TypeError"
    /\ user = None

C23_UnknownEventAborts ==
    (last.op \in EventTypes /\ pre.player # NoPlayer) =>
        IF last.op \notin {"TrackStartEvent", "TrackEndEvent", "TrackStuckEvent",
                           "TrackExceptionEvent", "WebSocketClosedEvent"}
        THEN /\ err = "UnknownEvent"
             /\ players[last.g] = pre.player
             /\ out = <<>>
             /\ tx = <<>>
             /\ transfers = <<>>
             /\ emitted = <<>>
        ELSE err = None

\* An event of unknown type reaching a session that is playing.
C23_Witness ==
    /\ last.op = "PlayerPingEvent"
    /\ pre.player # NoPlayer
    /\ pre.player.playing
    /\ err = "UnknownEvent"

\* C24 (as claimed): every event payload a node receives is re-emitted as a
\* raw notification tagged with that node, whatever its routing to a session
\* did.
C24_EveryPayloadReemittedRaw ==
    last.op \in EventTypes =>
        \E i \in 1..Len(emitted) : emitted[i].ev = "raw" /\ emitted[i].n = last.n

\* The amount the last stop() was called with.
StopAmount == CHOOSE k \in StopAmounts : ToString(k) = last.a

\* C25 (as claimed): stop(amount) with amount > 1 raises a range error,
\* sends nothing and leaves the queue as it was when amount exceeds the queue
\* length; otherwise it removes exactly `amount` leading entries and sends
\* one stop command.
C25_StopRemovesAmountEntries ==
    (last.op = "stop" /\ StopAmount > 1) =>
        IF StopAmount > Len(pre.player.queue)
        THEN /\ err = "RangeError"
             /\ out = <<>>
             /\ players[last.g] = pre.player
        ELSE /\ err = None
             /\ Len(players[last.g].queue) = Len(pre.player.queue) - StopAmount
             /\ players[last.g].queue =
                  SubSeq(pre.player.queue, StopAmount + 1, Len(pre.player.queue))
             /\ out = <<[op |-> "stop", guildId |-> last.g]>>

\* C25 (amended): stop(amount) with amount > 1 raises a range error, sends
\* nothing and leaves the queue as it was when amount exceeds the queue
\* length; otherwise it removes exactly amount - 1 leading entries and sends
\* one stop command.
C25_StopRemovesAmountMinusOne ==
    (last.op = "stop" /\ StopAmount > 1) =>
        IF StopAmount > Len(pre.player.queue)
        THEN /\ err = "RangeError"
             /\ out = <<>>
             /\ players[last.g] = pre.player
        ELSE /\ err = None
             /\ Len(players[last.g].queue) = Len(pre.player.queue) - (StopAmount - 1)
             /\ players[last.g].queue =
                  SubSeq(pre.player.queue, StopAmount, Len(pre.player.queue))
             /\ out = <<[op |-> "stop", guildId |-> last.g]>>

\* stop(2) on a queue of two tracks: one is left.
C25_Witness ==
    /\ last.op = "stop" /\ StopAmount = 2
    /\ Len(pre.player.queue) = 2
    /\ Len(players[last.g].queue) = 1
    /\ Len(out) = 1

\* C28: pause(flag) on a session with an empty queue changes nothing and
\* sends nothing; on a non-empty queue it sets paused to flag and playing to
\* not flag, changes nothing else and sends one pause command with the guild
\* id and the flag.
C28_PauseFlipsFlags ==
    last.op = "pause" =>
        LET flag == last.a = ToString(TRUE)
        IN /\ err = None
           /\ IF pre.player.queue = <<>>
              THEN /\ players[last.g] = pre.player
                   /\ out = <<>>
              ELSE /\ players[last.g] =
                        [pre.player EXCEPT !.paused = flag, !.playing = ~flag]
                   /\ out = <<[op |-> "pause", guildId |-> last.g, pause |-> flag]>>

\* pause(true) on a session that is playing.
C28_Witness ==
    /\ last.op = "pause" /\ last.a = ToString(TRUE)
    /\ pre.player.playing /\ ~pre.player.paused
    /\ players[last.g].paused /\ ~players[last.g].playing

\* C29 (as claimed): disconnect() without a voice channel does nothing;
\* otherwise, when it returns, paused is false, one leave payload (op 4, null
\* channel) was passed to the transfer callback and the voice channel is
\* cleared.
C29_DisconnectUnpausesAndLeaves ==
    last.op = "disconnect" =>
        IF pre.player.voiceChannel = None
        THEN /\ players[last.g] = pre.player
             /\ out = <<>>
             /\ transfers = <<>>
        ELSE /\ ~players[last.g].paused
             /\ Len(transfers) = 1
             /\ transfers[1].op = 4
             /\ transfers[1].d.guild_id = last.g
             /\ transfers[1].d.channel_id = None
             /\ players[last.g].voiceChannel = None

\* C30: a TrackStuck or TrackException event removes the head of the queue
\* (nothing from an empty queue), emits trackStuck or trackException, sends
\* nothing to the node and leaves the rest of the session, the repeat flags
\* with it, as it was.
C30_StuckOrExceptionDropsHead ==
    (last.op \in {"TrackStuckEvent", "TrackExceptionEvent"} /\ pre.player # NoPlayer) =>
        /\ err = None
        /\ players[last.g] =
             [pre.player EXCEPT !.queue = IF @ = <<>> THEN <<>> ELSE Tail(@)]
        /\ out = <<>>
        /\ tx = <<>>
        /\ Emitted(IF last.op = "TrackStuckEvent" THEN "trackStuck" ELSE "trackException")
        /\ ~Emitted(IF last.op = "TrackStuckEvent" THEN "trackException" ELSE "trackStuck")

\* A TrackStuck event on a queue of two with track repeat on.
C30_Witness ==
    /\ last.op = "TrackStuckEvent"
    /\ pre.player # NoPlayer
    /\ Len(pre.player.queue) = 2
    /\ pre.player.trackRepeat
    /\ Len(players[last.g].queue) = 1

\* C26 (as claimed): once the correlation succeeded for a guild, neither the
\* voice-server half nor the voice-state half is stored for it any more.
C26_PairConsumedOnSuccess ==
    \A g \in Guilds :
        (StoredAHalf /\ last.g = g /\ VoiceUpdates(g) # <<>>) =>
            voiceServers[g] = None /\ voiceStates[g] = NoState

\* C26 (amended): a successful correlation leaves the pair stored: the
\* voice-server half is the one sent, the voice-state half is as the handler
\* found or stored it and, when there is one, its session id is the one sent;
\* and a later voice-server update alone, for a guild with a session and a
\* stored voice-state half, establishes the link again with that half's
\* session id.
C26_PairKeptAndReused ==
    \A g \in Guilds :
        /\ (StoredAHalf /\ last.g = g /\ VoiceUpdates(g) # <<>>) =>
              /\ voiceServers[g] # None
              /\ voiceServers[g] = VoiceUpdates(g)[1].event
              /\ last.op = "voiceServersUpdate" => voiceStates[g] = pre.state
              /\ last.op = "voiceStateUpdate" =>
                    voiceServers[g] = pre.server /\ voiceStates[g] # NoState
              /\ voiceStates[g] # NoState =>
                    voiceStates[g].session_id = VoiceUpdates(g)[1].sessionId
        /\ (/\ last.op = "voiceServersUpdate" /\ last.g = g
            /\ pre.player # NoPlayer /\ pre.state # NoState) =>
              /\ err = None
              /\ Len(VoiceUpdates(g)) = 1
              /\ VoiceUpdates(g)[1].sessionId = pre.state.session_id

\* A voice-server update alone, after the link was established from the
\* stored pair, establishes it again.
C26_Witness ==
    /\ last.op = "voiceServersUpdate"
    /\ pre.server # None /\ pre.state # NoState
    /\ pre.player # NoPlayer
    /\ pre.player.voiceUpdateState # NoVoice
    /\ Len(VoiceUpdates(last.g)) = 1

C31_NeverPlayingAndPaused ==
    \A g \in Guilds :
        Has(g) => ~(players[g].playing /\ players[g].paused)

\* C32: whenever the playing flag of a session is true, its queue is not
\* empty and its current track is the head of the queue.
C32_PlayingHasHeadAsTrack ==
    \A g \in Guilds :
        (Has(g) /\ players[g].playing) =>
            /\ players[g].queue # <<>>
            /\ players[g].track = Head(players[g].queue)

\* C33: a node has at most one open socket: the reconnect timer's callback,
\* which drops the socket handle without closing the socket and opens a new
\* socket, never starts from a handle whose socket is open.
C33_AtMostOneOpenSocket ==
    last.op = "reconnect" => pre.ws # "open"

\* C34: no message passed to Node.send is dropped: it was handed to the open
\* socket, or it is held at the tail of the backlog.
C34_SendNeverDrops ==
    last.op = "send" =>
        \/ tx = <<[node |-> last.n, packet |-> Stringify(out[1])]>>
        \/ packetQueue[last.n] = Append(pre.packetQueue, Stringify(out[1]))

\* C35: a create() that fails because no node is connected has had no side
\* effect: it passed nothing to the host's transfer callback and no session
\* is registered for the guild.
C35_FailedCreateHasNoSideEffect ==
    (last.op = "create" /\ err = "NoNodes") =>
        /\ transfers = <<>>
        /\ players[last.g] = NoPlayer

\* C36: when both halves of a guild were stored before its session was
\* created, the session's voice link is eventually established (a voiceUpdate
\* is sent, which records the voiceUpdateState) with no further voice-gateway
\* event.
C36_HalvesFirstThenLinked ==
    \A g \in PlayGuilds :
        (Has(g) /\ voiceServers[g] # None /\ voiceStates[g] # NoState)
            ~> (Has(g) /\ players[g].voiceUpdateState # NoVoice)

====
